---- MODULE Spec2Model ----
(***************************************************************************)
(* A model of the sandboxed file-operation code of the coding assistant:   *)
(* WorkspaceManager (src/workspace_manager.py) and FileOperations          *)
(* (src/file_operations.py), over an explicit filesystem with directories, *)
(* regular files and symbolic links; and of its configuration and API      *)
(* layer: ConfigManager (src/config_manager.py), APIInterface              *)
(* (src/api_interface.py) and BaseAPIClient (src/api_client.py).           *)
(***************************************************************************)
EXTENDS Integers, Sequences, FiniteSets, TLC

VARIABLES
    fs,                     \* the filesystem: canonical path -> node
    allowed_paths,          \* WorkspaceManager.allowed_paths (list of normalized paths)
    fo_allowed_paths,       \* FileOperations.allowed_paths (list of user-expanded paths)
    security_config,        \* FileOperations.security_config (a dict)
    transaction_operations, \* the recorded FileOperation entries, oldest first
    tmp_count,              \* number of temporary directories tempfile.mkdtemp has made
    steps,                  \* number of mutating calls made so far
    snapshots,              \* history: the filesystem before and after each recorded operation
    cm_config,              \* ConfigManager.config (a dict)
    provider,               \* APIInterface.provider
    client,                 \* APIInterface.client (a BaseAPIClient with its conversation_history)
    audit_log,              \* the lines of the audit log file, oldest first
    history_log,            \* the lines of the history log file, oldest first
    call                    \* the call of the single logical actor: idle, or a finished call with its outcome

vars == <<fs, allowed_paths, fo_allowed_paths, security_config,
          transaction_operations, tmp_count, steps, snapshots,
          cm_config, provider, client, audit_log, history_log, call>>

\* the parts of the state a component does not own
fileops_vars == <<fo_allowed_paths, security_config>>
manager_vars == <<allowed_paths, transaction_operations, tmp_count, snapshots>>
api_vars == <<cm_config, provider, client, audit_log, history_log>>
files_vars == <<fs, manager_vars, fileops_vars>>

\* no ConfigManager and no APIInterface has been constructed
NoApi ==
    /\ cm_config = <<>>
    /\ provider = ""
    /\ client = <<>>
    /\ audit_log = <<>>
    /\ history_log = <<>>

(***************************************************************************)
(* Bounds of the model.                                                    *)
(***************************************************************************)
\* longest candidate path, in components
MaxDepth == 3

(***************************************************************************)
(* Paths.  A path is a sequence of component names; a name is a string, so *)
(* that str(path) is a real string and prefix tests on strings differ from *)
(* prefix tests on components.  A raw path (what a caller passes in) has a *)
(* base: absolute, relative to the working directory, or "~"-anchored, and *)
(* may hold ".." components.                                               *)
(***************************************************************************)
Names == {"ws", "ws-evil", "a", "link"}
Comps == Names \cup {".."}
Cwd == <<"ws">>
Home == <<"home">>

SeqUpTo(S, n) == UNION {[1..k -> S] : k \in 0..n}

RawPaths ==
    {[base |-> "abs", parts |-> s] : s \in SeqUpTo(Comps, MaxDepth)}
    \cup {[base |-> b, parts |-> s] : b \in {"rel", "home"}, s \in SeqUpTo(Comps, MaxDepth - 1)}

Abs(p) == [base |-> "abs", parts |-> p]

Parent(p) == IF p = <<>> THEN <<>> ELSE SubSeq(p, 1, Len(p) - 1)
Basename(p) == p[Len(p)]

\* str(path): "/" for the root, "/a/b" otherwise
RECURSIVE Str(_)
Str(p) == IF p = <<>> THEN "/"
          ELSE IF Len(p) = 1 THEN "/" \o p[1]
          ELSE Str(Parent(p)) \o "/" \o Basename(p)

\* str.startswith
startswith(s, prefix) == Len(prefix) <= Len(s) /\ SubSeq(s, 1, Len(prefix)) = prefix

\* os.path.expanduser: a leading "~" becomes the home directory
expanduser(raw) ==
    IF raw.base = "home" THEN [base |-> "abs", parts |-> Home \o raw.parts] ELSE raw

\* os.path.normpath on the components: ".." removes the component before it,
\* and stays at the root when there is none
RECURSIVE normpath(_, _)
normpath(done, rest) ==
    IF rest = <<>> THEN done
    ELSE IF Head(rest) = ".." THEN normpath(Parent(done), Tail(rest))
    ELSE normpath(Append(done, Head(rest)), Tail(rest))

\* os.path.abspath: join to the working directory when relative, then normpath
\* (purely lexical: no symlink is followed)
abspath(raw) == normpath(<<>>, IF raw.base = "rel" THEN Cwd \o raw.parts ELSE raw.parts)

(***************************************************************************)
(* The filesystem.  fs maps each existing canonical path (no symlink among *)
(* its ancestors) to a node; the root <<>> is a directory.                 *)
(***************************************************************************)
Dir == [kind |-> "dir", content |-> "", target |-> <<>>]
File(c) == [kind |-> "file", content |-> c, target |-> <<>>]
Link(t) == [kind |-> "link", content |-> "", target |-> t]

\* os.path.realpath / Path.resolve(strict=False) of absolute components:
\* left to right, ".." pops the resolved prefix, a symlink is replaced by its
\* (absolute) target, a missing component is kept as written
RECURSIVE realpath(_, _, _)
realpath(f, done, rest) ==
    IF rest = <<>> THEN done
    ELSE IF Head(rest) = ".." THEN realpath(f, Parent(done), Tail(rest))
    ELSE LET nxt == Append(done, Head(rest)) IN
         IF nxt \in DOMAIN f /\ f[nxt].kind = "link"
         THEN realpath(f, <<>>, f[nxt].target \o Tail(rest))
         ELSE realpath(f, nxt, Tail(rest))

\* Path.resolve() of a raw path: made absolute against the working directory
resolve(f, raw) == realpath(f, <<>>, IF raw.base = "rel" THEN Cwd \o raw.parts ELSE raw.parts)

\* Path.exists / is_file / is_dir follow symlinks
exists(f, p) == realpath(f, <<>>, p) \in DOMAIN f
is_file(f, p) == exists(f, p) /\ f[realpath(f, <<>>, p)].kind = "file"
is_dir(f, p) == exists(f, p) /\ f[realpath(f, <<>>, p)].kind = "dir"

\* Path.mkdir(parents=True, exist_ok=True): every missing directory on the way
\* to p is created; fails when a component on the way is not a directory
MissingDirs(f, real) == {SubSeq(real, 1, k) : k \in 1..Len(real)} \ DOMAIN f
mkdir_ok(f, p) ==
    LET real == realpath(f, <<>>, p) IN
    \A k \in 0..Len(real) :
        SubSeq(real, 1, k) \in DOMAIN f => f[SubSeq(real, 1, k)].kind = "dir"
mkdir_parents(f, p) ==
    LET real == realpath(f, <<>>, p) IN
    [q \in DOMAIN f \cup MissingDirs(f, real) |-> IF q \in DOMAIN f THEN f[q] ELSE Dir]

(***************************************************************************)
(* WorkspaceManager: construction and the path checks.                     *)
(***************************************************************************)
\* WorkspaceManager._normalize_path
_normalize_path(raw) == abspath(expanduser(raw))

\* the loop of __init__ without its test for a path already listed
RECURSIVE mut_add_allowed_no_test(_, _)
mut_add_allowed_no_test(acc, extra) ==
    IF extra = <<>> THEN acc
    ELSE mut_add_allowed_no_test(Append(acc, _normalize_path(Head(extra))), Tail(extra))

\* the loop of __init__ over the extra allowed paths: append when not yet listed
RECURSIVE add_allowed(_, _)
add_allowed(acc, extra) ==
    IF extra = <<>> THEN acc
    ELSE LET normalized_path == _normalize_path(Head(extra)) IN
         add_allowed(IF \E i \in 1..Len(acc) : acc[i] = normalized_path
                     THEN acc ELSE Append(acc, normalized_path),
                     Tail(extra))

\* WorkspaceManager.__init__: the allow-list
init_allowed_paths(root_path, extra) == add_allowed(<<_normalize_path(root_path)>>, extra)

\* WorkspaceManager._ensure_workspace_exists: mkdir of every root that does not exist
RECURSIVE _ensure_workspace_exists(_, _)
_ensure_workspace_exists(f, roots) ==
    IF roots = <<>> THEN f
    ELSE _ensure_workspace_exists(
             IF exists(f, Head(roots)) THEN f ELSE mkdir_parents(f, Head(roots)),
             Tail(roots))

\* relative_to as a naive test on the strings of the two paths
mut_relative_to_startswith(p, other) ==
    IF startswith(Str(p), Str(other))
    THEN [ok |-> TRUE, rel |-> SubSeq(p, Len(other) + 1, Len(p))]
    ELSE [ok |-> FALSE, rel |-> <<>>]

\* PurePath.relative_to: succeeds when `other` is a prefix of p by components
relative_to(p, other) ==
    IF Len(other) <= Len(p) /\ SubSeq(p, 1, Len(other)) = other
    THEN [ok |-> TRUE, rel |-> SubSeq(p, Len(other) + 1, Len(p))]
    ELSE [ok |-> FALSE, rel |-> <<>>]

\* WorkspaceManager._is_path_allowed
_is_path_allowed(allowed, raw) ==
    LET normalized_path == _normalize_path(raw) IN
    \E i \in 1..Len(allowed) : relative_to(normalized_path, allowed[i]).ok

\* _validate_path without its check of the normalized path
mut_validate_path_real_only(f, allowed, raw) ==
    LET normalized_path == _normalize_path(raw)
        real_path == realpath(f, <<>>, normalized_path)
    IN  IF ~_is_path_allowed(allowed, Abs(real_path))
        THEN [result |-> "WorkspaceSecurityError", value |-> <<>>]
        ELSE [result |-> "ok", value |-> normalized_path]

\* _validate_path without its check of the resolved path
mut_validate_path_normalized_only(f, allowed, raw) ==
    LET normalized_path == _normalize_path(raw)
    IN  IF ~_is_path_allowed(allowed, Abs(normalized_path))
        THEN [result |-> "WorkspaceSecurityError", value |-> <<>>]
        ELSE [result |-> "ok", value |-> normalized_path]

\* WorkspaceManager._validate_path: the outcome and the returned path
_validate_path(f, allowed, raw) ==
    LET normalized_path == _normalize_path(raw)
        real_path == realpath(f, <<>>, normalized_path)
    IN  IF ~_is_path_allowed(allowed, Abs(real_path))
        THEN [result |-> "WorkspaceSecurityError", value |-> <<>>]
        ELSE IF ~_is_path_allowed(allowed, Abs(normalized_path))
        THEN [result |-> "WorkspaceSecurityError", value |-> <<>>]
        ELSE [result |-> "ok", value |-> normalized_path]

\* _get_relative_path that keeps going through the roots and answers for the last
\* one that holds the path
mut_get_relative_path_last(allowed, raw) ==
    LET normalized_path == _normalize_path(raw)
        hits == {i \in 1..Len(allowed) : relative_to(normalized_path, allowed[i]).ok}
    IN  IF hits = {}
        THEN [result |-> "WorkspaceSecurityError", value |-> <<>>]
        ELSE LET last == CHOOSE i \in hits : \A j \in hits : j <= i IN
             [result |-> "ok", value |-> relative_to(normalized_path, allowed[last]).rel]

\* WorkspaceManager._get_relative_path: relative to the first root that holds it
_get_relative_path(allowed, raw) ==
    LET normalized_path == _normalize_path(raw)
        hits == {i \in 1..Len(allowed) : relative_to(normalized_path, allowed[i]).ok}
    IN  IF hits = {}
        THEN [result |-> "WorkspaceSecurityError", value |-> <<>>]
        ELSE LET first == CHOOSE i \in hits : \A j \in hits : i <= j IN
             [result |-> "ok", value |-> relative_to(normalized_path, allowed[first]).rel]

(***************************************************************************)
(* The filesystems a manager is constructed on: a workspace /ws with a     *)
(* file, a sibling /ws-evil outside it whose name extends the workspace's, *)
(* and optionally a symlink out of the workspace, a symlink into it, and a *)
(* home directory that is itself a symlink to the workspace.               *)
(***************************************************************************)
BaseTree ==
    (<<>> :> Dir) @@ (<<"ws">> :> Dir) @@ (<<"ws", "a">> :> File("c0"))
    @@ (<<"ws-evil">> :> Dir) @@ (<<"ws-evil", "a">> :> File("secret"))

Layout(escape, inward, homelink) ==
    BaseTree
    @@ (<<"home">> :> IF homelink THEN Link(<<"ws">>) ELSE Dir)
    @@ (IF escape THEN <<"ws", "link">> :> Link(<<"ws-evil">>) ELSE <<>> :> Dir)
    @@ (IF inward THEN <<"ws-evil", "link">> :> Link(<<"ws">>) ELSE <<>> :> Dir)

Layouts == {Layout(e, i, h) : e \in BOOLEAN, i \in BOOLEAN, h \in BOOLEAN}

\* the root_path and allowed_paths arguments a manager is constructed with
RootChoices == {Abs(<<"ws">>), [base |-> "home", parts |-> <<>>], Abs(<<"ws", "link">>)}
ExtraChoices ==
    { <<>>,
      <<[base |-> "rel", parts |-> <<>>], Abs(<<"ws-evil", "..", "ws">>)>>,
      <<Abs(<<"ws-evil">>), Abs(<<"ws">>), Abs(<<"ws-evil">>)>> }

Idle == [op |-> "idle"]

\* the state after WorkspaceManager(root_path, allowed_paths) on a filesystem:
\* the finished call is the constructor's
InitPath ==
    \E f \in Layouts, root_path \in RootChoices, extra \in ExtraChoices :
        /\ allowed_paths = init_allowed_paths(root_path, extra)
        /\ fs = _ensure_workspace_exists(f, init_allowed_paths(root_path, extra))
        /\ call = [op |-> "__init__", root_path |-> root_path, allowed_paths |-> extra]
        /\ fo_allowed_paths = <<>>
        /\ security_config = <<>>
        /\ transaction_operations = <<>>
        /\ tmp_count = 0
        /\ snapshots = <<>>
        /\ steps = 0
        /\ NoApi

(***************************************************************************)
(* The calls of the path checks.  A call runs to completion; Return hands  *)
(* control back to the caller.                                             *)
(***************************************************************************)
IsPathAllowed(raw) ==
    /\ call.op = "idle"
    /\ call' = [op |-> "_is_path_allowed", arg |-> raw,
                result |-> _is_path_allowed(allowed_paths, raw)]
    /\ UNCHANGED <<fs, steps, manager_vars, fileops_vars, api_vars>>

ValidatePath(raw) ==
    /\ call.op = "idle"
    /\ call' = [op |-> "_validate_path", arg |-> raw]
               @@ _validate_path(fs, allowed_paths, raw)
    /\ UNCHANGED <<fs, steps, manager_vars, fileops_vars, api_vars>>

GetRelativePath(raw) ==
    /\ call.op = "idle"
    /\ call' = [op |-> "_get_relative_path", arg |-> raw]
               @@ _get_relative_path(allowed_paths, raw)
    /\ UNCHANGED <<fs, steps, manager_vars, fileops_vars, api_vars>>

Return ==
    /\ call.op # "idle"
    /\ call' = Idle
    /\ UNCHANGED <<fs, steps, manager_vars, fileops_vars, api_vars>>

NextPath ==
    \/ \E raw \in RawPaths : IsPathAllowed(raw)
    \/ \E raw \in RawPaths : ValidatePath(raw)
    \/ \E raw \in RawPaths : GetRelativePath(raw)
    \/ Return

SpecPath == InitPath /\ [][NextPath]_vars

(***************************************************************************)
(* FileOperations: validate_path, safe_read_file, safe_write_file.         *)
(***************************************************************************)
\* the key of security_config that safe_write_file reads
ConfirmKey == "require_confirmation_for_writes"

\* dict.get(key, default)
get(d, key, default) == IF key \in DOMAIN d THEN d[key] ELSE default

\* str.lower, on the letters an answer is made of
lower_char(c) ==
    CASE c = "Y" -> "y" [] c = "E" -> "e" [] c = "S" -> "s" [] c = "N" -> "n" [] OTHER -> c
RECURSIVE lower(_)
lower(s) == IF Len(s) = 0 THEN ""
            ELSE lower_char(SubSeq(s, 1, 1)) \o lower(SubSeq(s, 2, Len(s)))

\* the answers accepted as a confirmation
Accepted(answer) == lower(answer) \in {"y", "ye", "yes"}

\* FileOperations.__init__: Path(os.path.expanduser(path)) for every configured path
fo_init_allowed_paths(configured) == [i \in 1..Len(configured) |-> expanduser(configured[i])]

\* FileOperations.validate_path: the outcome and the resolved path
fo_validate_path(f, allowed, raw) ==
    LET resolved_path == resolve(f, expanduser(raw)) IN
    IF ~\E i \in 1..Len(allowed) :
           startswith(Str(resolved_path), Str(resolve(f, allowed[i])))
    THEN [result |-> "ValueError", value |-> <<>>]
    ELSE [result |-> "ok", value |-> resolved_path]

\* open(path, 'r') and read(), on a resolved path: the error or the content
open_read(f, real) ==
    IF real \notin DOMAIN f
    THEN IF \E k \in 0..(Len(real) - 1) :
                SubSeq(real, 1, k) \in DOMAIN f /\ f[SubSeq(real, 1, k)].kind = "file"
         THEN [result |-> "NotADirectoryError", value |-> ""]
         ELSE [result |-> "FileNotFoundError", value |-> ""]
    ELSE IF f[real].kind = "dir" THEN [result |-> "IsADirectoryError", value |-> ""]
    ELSE [result |-> "ok", value |-> f[real].content]

\* FileOperations.safe_read_file: validate, then open and read.  `opened` holds
\* the file whose bytes were read, if any
safe_read_file(f, allowed, raw) ==
    LET v == fo_validate_path(f, allowed, raw) IN
    IF v.result # "ok"
    THEN [result |-> v.result, value |-> "", opened |-> {}]
    ELSE LET r == open_read(f, v.value) IN
         [result |-> r.result, value |-> r.value,
          opened |-> IF r.result = "ok" THEN {v.value} ELSE {}]

\* resolved_path.parent.mkdir(parents=True, exist_ok=True), then open(path, 'w')
\* and write(content), on a resolved path.  io is what the device does with the
\* write: "ok", or "OSError" after the file was opened (created or truncated)
write_file(f, real, content, io) ==
    IF ~mkdir_ok(f, Parent(real))
    THEN [result |-> IF Parent(real) \in DOMAIN f THEN "FileExistsError"
                     ELSE "NotADirectoryError",
          fs |-> f]
    ELSE LET g == mkdir_parents(f, Parent(real)) IN
         IF real \in DOMAIN g /\ g[real].kind = "dir"
         THEN [result |-> "IsADirectoryError", fs |-> g]
         ELSE IF io = "ok"
         THEN [result |-> "ok", fs |-> (real :> File(content)) @@ g]
         ELSE [result |-> "OSError", fs |-> (real :> File("")) @@ g]

\* the confirm argument: None, True or False
NoConfirm == [given |-> FALSE, value |-> FALSE]
Confirm(b) == [given |-> TRUE, value |-> b]

\* require_confirmation that leaves the confirm argument out of account
mut_require_confirmation_config_only(config, confirm) == get(config, ConfirmKey, TRUE)

\* whether safe_write_file asks: the configuration decides unless confirm is given
require_confirmation(config, confirm) ==
    IF confirm.given THEN confirm.value ELSE get(config, ConfirmKey, TRUE)

\* safe_write_file that creates the parent directories before it asks
mut_safe_write_file_mkdir_first(f, allowed, config, raw, content, confirm, answer, io) ==
    LET v == fo_validate_path(f, allowed, raw)
        asks == require_confirmation(config, confirm)
    IN  IF v.result # "ok"
        THEN [result |-> v.result, fs |-> f, prompted |-> FALSE]
        ELSE IF asks /\ ~Accepted(answer)
        THEN [result |-> "PermissionError",
              fs |-> IF mkdir_ok(f, Parent(v.value)) THEN mkdir_parents(f, Parent(v.value)) ELSE f,
              prompted |-> TRUE]
        ELSE write_file(f, v.value, content, io) @@ [prompted |-> asks]

\* FileOperations.safe_write_file: validate, ask when required, then mutate
safe_write_file(f, allowed, config, raw, content, confirm, answer, io) ==
    LET v == fo_validate_path(f, allowed, raw)
        asks == require_confirmation(config, confirm)
    IN  IF v.result # "ok"
        THEN [result |-> v.result, fs |-> f, prompted |-> FALSE]
        ELSE IF asks /\ ~Accepted(answer)
        THEN [result |-> "PermissionError", fs |-> f, prompted |-> TRUE]
        ELSE write_file(f, v.value, content, io) @@ [prompted |-> asks]

(***************************************************************************)
(* The states FileOperations is constructed in, and its calls.             *)
(***************************************************************************)
\* longest run of mutating calls
MaxSteps == 1

Contents == {"c1"}

\* the candidate paths FileOperations is called with
FoPaths ==
    { Abs(<<"ws", "a">>),                    \* an existing file of the allowed directory
      Abs(<<"ws", "ws", "a">>),              \* a new file below a missing directory
      Abs(<<"ws", "a", "a">>),               \* below a regular file
      Abs(<<"ws">>),                         \* the allowed directory itself
      Abs(<<"ws-evil", "a">>),               \* an existing file of the sibling directory
      Abs(<<"ws-evil", "ws">>),              \* a new file of the sibling directory
      Abs(<<"a">>),                          \* a new file outside both
      Abs(<<"ws", "link", "a">>),            \* through the symlink that leaves /ws
      Abs(<<"ws", "..", "ws-evil", "a">>),   \* a traversal out of /ws
      [base |-> "rel", parts |-> <<"ws">>],  \* relative to the working directory
      [base |-> "home", parts |-> <<"a">>] } \* below the home directory
Answers == {"y", "Y", "ye", "yE", "yes", "YES", "Yes", "", "n", "no", "N", "yess", "ys"}
NoAnswer == ""
Confirms == {NoConfirm, Confirm(TRUE), Confirm(FALSE)}

\* workspace.allowed_paths of the configuration
ConfiguredChoices == {<<Abs(<<"ws">>)>>, <<>>, <<[base |-> "home", parts |-> <<>>]>>}
SecurityChoices ==
    {<<>>} \cup {(ConfirmKey :> b) : b \in BOOLEAN}

InitFileOps ==
    \E f \in {Layout(e, e, h) : e \in BOOLEAN, h \in BOOLEAN},
       configured \in ConfiguredChoices, sec \in SecurityChoices :
        /\ fs = f
        /\ fo_allowed_paths = fo_init_allowed_paths(configured)
        /\ security_config = sec
        /\ allowed_paths = <<>>
        /\ transaction_operations = <<>>
        /\ tmp_count = 0
        /\ snapshots = <<>>
        /\ steps = 0
        /\ NoApi
        /\ call = Idle

FoValidatePath(raw) ==
    /\ call.op = "idle"
    /\ call' = [op |-> "validate_path", arg |-> raw]
               @@ fo_validate_path(fs, fo_allowed_paths, raw)
    /\ UNCHANGED <<fs, steps, manager_vars, fileops_vars, api_vars>>

SafeReadFile(raw) ==
    /\ call.op = "idle"
    /\ call' = [op |-> "safe_read_file", arg |-> raw]
               @@ safe_read_file(fs, fo_allowed_paths, raw)
    /\ UNCHANGED <<fs, steps, manager_vars, fileops_vars, api_vars>>

\* an input the call does not consume is left at its default
SafeWriteFile(raw, content, confirm, answer, io) ==
    LET valid == fo_validate_path(fs, fo_allowed_paths, raw).result = "ok"
        asks == require_confirmation(security_config, confirm)
        r == safe_write_file(fs, fo_allowed_paths, security_config,
                             raw, content, confirm, answer, io)
    IN  /\ call.op = "idle"
        /\ steps < MaxSteps
        /\ (~valid \/ ~asks) => answer = NoAnswer
        /\ (~valid \/ (asks /\ ~Accepted(answer))) => io = "ok"
        /\ call' = [op |-> "safe_write_file", arg |-> raw, content |-> content,
                    confirm |-> confirm, answer |-> answer, io |-> io,
                    result |-> r.result, prompted |-> r.prompted, before |-> fs]
        /\ fs' = r.fs
        /\ steps' = IF r.fs = fs THEN steps ELSE steps + 1
        /\ UNCHANGED <<manager_vars, fileops_vars, api_vars>>

NextFileOps ==
    \/ \E raw \in FoPaths : FoValidatePath(raw)
    \/ \E raw \in FoPaths : SafeReadFile(raw)
    \/ \E raw \in FoPaths, content \in Contents, confirm \in Confirms,
          answer \in Answers, io \in {"ok", "OSError"} :
           SafeWriteFile(raw, content, confirm, answer, io)
    \/ Return

SpecFileOps == InitFileOps /\ [][NextFileOps]_vars

(***************************************************************************)
(* The library calls _backup_file and _rollback_operation make.            *)
(***************************************************************************)
OkFs(f) == [result |-> "ok", fs |-> f]

\* the names in directory r
Children(f, r) ==
    {q[Len(r) + 1] : q \in {x \in DOMAIN f : Len(x) = Len(r) + 1 /\ SubSeq(x, 1, Len(r)) = r}}

\* where the entry named by p lives: symlinks of the parent followed, the last
\* name taken as written (what unlink, rmtree and mkdir act on)
Entry(f, p) == IF p = <<>> THEN <<>> ELSE Append(realpath(f, <<>>, Parent(p)), Basename(p))

Remove(f, gone) == [q \in DOMAIN f \ gone |-> f[q]]

\* what is seen at p with every symlink followed: the set of <<relative path, node>>
\* of the file, or of the directory and all below it; empty when nothing is there.
\* `above` holds the directories being walked: a symlink back into one of them is
\* a cycle, which no walk gets through
RECURSIVE ViewFrom(_, _, _)
ViewFrom(f, p, above) ==
    LET r == realpath(f, <<>>, p) IN
    IF r \notin DOMAIN f \/ r \in above THEN {}
    ELSE IF f[r].kind = "file" THEN {<<<<>>, f[r]>>}
    ELSE {<<<<>>, Dir>>}
         \cup UNION {{<<<<n>> \o e[1], e[2]>> : e \in ViewFrom(f, Append(r, n), above \cup {r})}
                     : n \in Children(f, r)}
View(f, p) == ViewFrom(f, p, {})

\* a symlink at or below p leads nowhere, or back into a directory above it
RECURSIVE BrokenFrom(_, _, _)
BrokenFrom(f, p, above) ==
    LET r == realpath(f, <<>>, p) IN
    IF r \notin DOMAIN f \/ r \in above THEN TRUE
    ELSE f[r].kind = "dir"
         /\ \E n \in Children(f, r) : BrokenFrom(f, Append(r, n), above \cup {r})
HasDangling(f, p) == BrokenFrom(f, p, {})

\* Path.unlink: removes the entry itself, never what a symlink points to
unlink(f, p) ==
    LET key == Entry(f, p) IN
    IF key \notin DOMAIN f THEN [result |-> "FileNotFoundError", fs |-> f]
    ELSE IF f[key].kind = "dir" THEN [result |-> "IsADirectoryError", fs |-> f]
    ELSE OkFs(Remove(f, {key}))

\* shutil.rmtree: refuses a symbolic link, removes a directory and all below it
rmtree(f, p) ==
    LET key == Entry(f, p) IN
    IF key \notin DOMAIN f THEN [result |-> "FileNotFoundError", fs |-> f]
    ELSE IF f[key].kind = "link" THEN [result |-> "OSError", fs |-> f]
    ELSE IF f[key].kind = "file" THEN [result |-> "NotADirectoryError", fs |-> f]
    ELSE OkFs(Remove(f, {q \in DOMAIN f : relative_to(q, key).ok}))

\* shutil.copy2(src, dst), src an existing file: dst is opened for writing with
\* symlinks followed (inside dst when dst is a directory); no directory is made
copy2(f, src, dst) ==
    LET from == realpath(f, <<>>, src)
        at == realpath(f, <<>>, dst)
        to == IF at \in DOMAIN f /\ f[at].kind = "dir" THEN Append(at, Basename(src)) ELSE at
    IN  IF from = to THEN [result |-> "SameFileError", fs |-> f]
        ELSE IF Parent(to) \notin DOMAIN f THEN [result |-> "FileNotFoundError", fs |-> f]
        ELSE IF f[Parent(to)].kind # "dir" THEN [result |-> "NotADirectoryError", fs |-> f]
        ELSE IF to \in DOMAIN f /\ f[to].kind = "dir" THEN [result |-> "IsADirectoryError", fs |-> f]
        ELSE OkFs((to :> File(f[from].content)) @@ f)

\* shutil.copytree(src, dst), src an existing directory: dst must not exist; it
\* and its missing parents are made, and everything seen below src is copied,
\* symlinks followed (a symlink that leads nowhere is reported at the end)
copytree(f, src, dst) ==
    LET key == Entry(f, dst)
        seen == View(f, src)
    IN  IF key \in DOMAIN f THEN [result |-> "FileExistsError", fs |-> f]
        ELSE IF ~mkdir_ok(f, Parent(key)) THEN [result |-> "NotADirectoryError", fs |-> f]
        ELSE LET g == mkdir_parents(f, key)
                 new == {key \o e[1] : e \in seen}
             IN  [result |-> IF HasDangling(f, src) THEN "Error" ELSE "ok",
                  fs |-> [q \in DOMAIN g \cup new |->
                             IF q \in new THEN (CHOOSE e \in seen : key \o e[1] = q)[2] ELSE g[q]]]

\* a mkdtemp that hands out the same directory every time
mut_TmpDir_fixed(k) == <<"tmp", "ai_agent_backup_" \o ToString(0)>>

\* tempfile.mkdtemp(prefix="ai_agent_backup_"): the k-th temporary directory
TmpDir(k) == <<"tmp", "ai_agent_backup_" \o ToString(k)>>

(***************************************************************************)
(* FileOperation records, _backup_file and _rollback_operation.            *)
(***************************************************************************)
\* FileOperationType
FileOperationType == {"read", "write", "append", "delete", "rename", "create_dir", "list_dir"}

\* an Optional[Path]: None, or a path
None == [some |-> FALSE, path |-> <<>>]
Some(p) == [some |-> TRUE, path |-> p]

\* FileOperation(operation_type, path, content=None, new_path=None, backup_path=None)
FileOperation(type, path, new_path, backup_path) ==
    [operation_type |-> type, path |-> path, content |-> "",
     new_path |-> new_path, backup_path |-> backup_path]

\* _backup_file that makes the backup directory of a tree without copying what
\* is in it
mut_backup_file_shallow(f, k, path) ==
    IF ~exists(f, path)
    THEN [result |-> "ok", value |-> None, fs |-> f, made |-> 0]
    ELSE LET backup_dir == TmpDir(k)
             g == (backup_dir :> Dir) @@ f
             backup_path == Append(backup_dir, Basename(path))
             r == IF is_file(g, path) THEN copy2(g, path, backup_path)
                  ELSE OkFs((backup_path :> Dir) @@ g)
         IN  [result |-> r.result,
              value |-> IF r.result = "ok" THEN Some(backup_path) ELSE None,
              fs |-> r.fs, made |-> 1]

\* WorkspaceManager._backup_file: None when nothing is at path, else a copy in the
\* k-th temporary directory; `made` counts the temporary directories created
_backup_file(f, k, path) ==
    IF ~exists(f, path)
    THEN [result |-> "ok", value |-> None, fs |-> f, made |-> 0]
    ELSE LET backup_dir == TmpDir(k)
             g == (backup_dir :> Dir) @@ f
             backup_path == Append(backup_dir, Basename(path))
             r == IF is_file(g, path) THEN copy2(g, path, backup_path)
                  ELSE copytree(g, path, backup_path)
         IN  [result |-> r.result,
              value |-> IF r.result = "ok" THEN Some(backup_path) ELSE None,
              fs |-> r.fs, made |-> 1]

\* _rollback_operation that does not test whether the backup copy is still there
mut_rollback_operation_no_backup_test(f, operation) ==
    LET path == operation.path
        backup_path == operation.backup_path.path
    IN  IF ~operation.backup_path.some
        THEN IF operation.operation_type = "create_dir"
             THEN IF exists(f, path) /\ is_dir(f, path) THEN rmtree(f, path) ELSE OkFs(f)
             ELSE [result |-> "AttributeError", fs |-> f]
        ELSE LET cleared == IF exists(f, path)
                            THEN IF is_file(f, path) THEN unlink(f, path) ELSE rmtree(f, path)
                            ELSE OkFs(f)
             IN  IF cleared.result # "ok" THEN cleared
                 ELSE IF ~exists(cleared.fs, backup_path)
                 THEN [result |-> "FileNotFoundError", fs |-> cleared.fs]
                 ELSE IF is_file(cleared.fs, backup_path)
                 THEN copy2(cleared.fs, backup_path, path)
                 ELSE copytree(cleared.fs, backup_path, path)

\* _rollback_operation that copies the backup back without first removing what
\* is at the path
mut_rollback_operation_no_clear(f, operation) ==
    LET path == operation.path
        backup_path == operation.backup_path.path
    IN  IF ~operation.backup_path.some
        THEN IF operation.operation_type = "create_dir"
             THEN IF exists(f, path) /\ is_dir(f, path) THEN rmtree(f, path) ELSE OkFs(f)
             ELSE [result |-> "AttributeError", fs |-> f]
        ELSE IF exists(f, backup_path)
        THEN IF is_file(f, backup_path) THEN copy2(f, backup_path, path)
             ELSE copytree(f, backup_path, path)
        ELSE OkFs(f)

\* _rollback_operation that restores only onto a path where nothing is
mut_rollback_operation_keep_existing(f, operation) ==
    LET path == operation.path
        backup_path == operation.backup_path.path
    IN  IF ~operation.backup_path.some
        THEN IF operation.operation_type = "create_dir"
             THEN IF exists(f, path) /\ is_dir(f, path) THEN rmtree(f, path) ELSE OkFs(f)
             ELSE [result |-> "AttributeError", fs |-> f]
        ELSE IF exists(f, backup_path) /\ ~exists(f, path)
        THEN IF is_file(f, backup_path) THEN copy2(f, backup_path, path)
             ELSE copytree(f, backup_path, path)
        ELSE OkFs(f)

\* WorkspaceManager._rollback_operation.  Without a backup: a created directory is
\* removed; for any other kind the comparison with FileOperation.WRITE, an
\* attribute the dataclass does not have, raises AttributeError.  With a backup
\* whose copy exists: what is at path is removed and the copy is put there
_rollback_operation(f, operation) ==
    LET path == operation.path
        backup_path == operation.backup_path.path
    IN  IF ~operation.backup_path.some
        THEN IF operation.operation_type = "create_dir"
             THEN IF exists(f, path) /\ is_dir(f, path) THEN rmtree(f, path) ELSE OkFs(f)
             ELSE [result |-> "AttributeError", fs |-> f]
        ELSE IF exists(f, backup_path)
        THEN LET cleared == IF exists(f, path)
                            THEN IF is_file(f, path) THEN unlink(f, path) ELSE rmtree(f, path)
                            ELSE OkFs(f)
             IN  IF cleared.result # "ok" THEN cleared
                 ELSE IF is_file(cleared.fs, backup_path)
                 THEN copy2(cleared.fs, backup_path, path)
                 ELSE copytree(cleared.fs, backup_path, path)
        ELSE OkFs(f)

(***************************************************************************)
(* The operations of the workspace manager that produce FileOperation      *)
(* records.  The repository has no code for them: they follow section 4.4  *)
(* of the specification (validate, back up when destructive, mutate,       *)
(* record), and call the code's _validate_path and _backup_file.           *)
(***************************************************************************)
Failed(kind, f) == [result |-> kind, fs |-> f, made |-> 0, recorded |-> <<>>]

\* write(path, content): back up the existing content, if any, and write
ws_write(f, k, allowed, raw, content) ==
    LET v == _validate_path(f, allowed, raw)
        path == v.value
        b == _backup_file(f, k, path)
        real == realpath(b.fs, <<>>, path)
    IN  IF v.result # "ok" THEN Failed("SecurityViolation", f)
        ELSE IF is_dir(f, path) \/ ~is_dir(f, Parent(path)) THEN Failed("InvalidOperation", f)
        ELSE IF b.result # "ok" THEN [Failed("IOFailure", b.fs) EXCEPT !.made = b.made]
        ELSE [result |-> "ok", fs |-> (real :> File(content)) @@ b.fs, made |-> b.made,
              recorded |-> <<FileOperation("write", path, None, b.value)>>]

\* delete(path): NotFound when absent, else back up and remove the file or tree
ws_delete(f, k, allowed, raw) ==
    LET v == _validate_path(f, allowed, raw)
        path == v.value
        b == _backup_file(f, k, path)
        gone == IF is_file(b.fs, path) THEN unlink(b.fs, path) ELSE rmtree(b.fs, path)
    IN  IF v.result # "ok" THEN Failed("SecurityViolation", f)
        ELSE IF ~exists(f, path) THEN Failed("NotFound", f)
        ELSE IF b.result # "ok" \/ gone.result # "ok"
        THEN [Failed("IOFailure", b.fs) EXCEPT !.made = b.made]
        ELSE [result |-> "ok", fs |-> gone.fs, made |-> b.made,
              recorded |-> <<FileOperation("delete", path, None, b.value)>>]

\* rename(from, to): both validated; a pre-existing `to` is backed up, then the
\* entry at `from` replaces it
ws_rename(f, k, allowed, raw_from, raw_to) ==
    LET vf == _validate_path(f, allowed, raw_from)
        vt == _validate_path(f, allowed, raw_to)
        from == vf.value
        to == vt.value
        b == _backup_file(f, k, to)
        g == b.fs
        moved == {q \in DOMAIN g : relative_to(q, from).ok}
        kept == DOMAIN g \ (moved \cup {q \in DOMAIN g : relative_to(q, to).ok})
        landed == {to \o relative_to(q, from).rel : q \in moved}
    IN  IF vf.result # "ok" \/ vt.result # "ok" THEN Failed("SecurityViolation", f)
        ELSE IF ~exists(f, from) THEN Failed("NotFound", f)
        ELSE IF \/ from = to
                \/ relative_to(to, from).ok
                \/ ~is_dir(f, Parent(to))
                \/ (exists(f, to) /\ ~(is_file(f, from) /\ is_file(f, to)))
        THEN Failed("InvalidOperation", f)
        ELSE IF b.result # "ok" THEN [Failed("IOFailure", b.fs) EXCEPT !.made = b.made]
        ELSE [result |-> "ok",
              fs |-> [q \in kept \cup landed |->
                         IF q \in landed
                         THEN g[from \o relative_to(q, to).rel]
                         ELSE g[q]],
              made |-> b.made,
              recorded |-> <<FileOperation("rename", from, Some(to), b.value)>>]

\* createDir(path): InvalidOperation when it exists, else made with its missing
\* parents and recorded with no backup
ws_create_dir(f, k, allowed, raw) ==
    LET v == _validate_path(f, allowed, raw)
        path == v.value
    IN  IF v.result # "ok" THEN Failed("SecurityViolation", f)
        ELSE IF exists(f, path) \/ ~mkdir_ok(f, path) THEN Failed("InvalidOperation", f)
        ELSE [result |-> "ok", fs |-> mkdir_parents(f, path), made |-> 0,
              recorded |-> <<FileOperation("create_dir", path, None, None)>>]

(***************************************************************************)
(* The workspace the operations and rollbacks run on: /ws with a file and  *)
(* a directory tree (a file, a subdirectory with a file and, optionally, a *)
(* symlink to a file), and the system's temporary directory /tmp.          *)
(***************************************************************************)
\* most operations recorded, and most rollbacks made, in one run
MaxOps == 2
MaxRollbacks == 1

RollbackLayout(nested) ==
    BaseTree
    @@ (<<"tmp">> :> Dir) @@ (<<"ws", "d">> :> Dir) @@ (<<"ws", "d", "n">> :> File("c2"))
    @@ (<<"ws", "d", "sub">> :> Dir) @@ (<<"ws", "d", "sub", "m">> :> File("c3"))
    @@ (IF nested THEN <<"ws", "d", "l">> :> Link(<<"ws", "a">>) ELSE <<>> :> Dir)

\* the paths the operations are called with
OpPaths ==
    { Abs(<<"ws", "a">>),       \* an existing file
      Abs(<<"ws", "d">>),       \* an existing directory tree
      Abs(<<"ws", "d", "n">>),  \* a file inside it
      Abs(<<"ws", "new">>),     \* nothing there yet
      Abs(<<"ws", "new", "x">>),\* nothing there, nor its directory
      Abs(<<"ws-evil", "a">>) } \* outside the workspace

InitRollback ==
    \E nested \in BOOLEAN :
        /\ allowed_paths = init_allowed_paths(Abs(<<"ws">>), <<>>)
        /\ fs = _ensure_workspace_exists(RollbackLayout(nested),
                                         init_allowed_paths(Abs(<<"ws">>), <<>>))
        /\ fo_allowed_paths = <<>>
        /\ security_config = <<>>
        /\ transaction_operations = <<>>
        /\ tmp_count = 0
        /\ snapshots = <<>>
        /\ steps = 0
        /\ NoApi
        /\ call = Idle

\* an operation runs to completion: filesystem, temporary directories, log
Operate(name, r) ==
    /\ call.op = "idle"
    /\ Len(transaction_operations) < MaxOps
    /\ tmp_count < MaxOps
    /\ fs' = r.fs
    /\ tmp_count' = tmp_count + r.made
    /\ transaction_operations' = transaction_operations \o r.recorded
    /\ snapshots' = IF r.recorded = <<>> THEN snapshots
                    ELSE Append(snapshots, [pre |-> fs, post |-> r.fs])
    /\ call' = [op |-> name, result |-> r.result]
    /\ UNCHANGED <<allowed_paths, steps, fileops_vars, api_vars>>

Write(raw, content) ==
    Operate("write", ws_write(fs, tmp_count + 1, allowed_paths, raw, content))

Delete(raw) ==
    Operate("delete", ws_delete(fs, tmp_count + 1, allowed_paths, raw))

Rename(raw_from, raw_to) ==
    Operate("rename", ws_rename(fs, tmp_count + 1, allowed_paths, raw_from, raw_to))

CreateDir(raw) ==
    Operate("create_dir", ws_create_dir(fs, tmp_count + 1, allowed_paths, raw))

\* _rollback_operation called on the i-th recorded operation
RollbackOperation(i) ==
    LET r == _rollback_operation(fs, transaction_operations[i]) IN
    /\ call.op = "idle"
    /\ steps < MaxRollbacks
    /\ i \in 1..Len(transaction_operations)
    /\ fs' = r.fs
    /\ steps' = steps + 1
    /\ call' = [op |-> "_rollback_operation", index |-> i,
                operation |-> transaction_operations[i],
                result |-> r.result, before |-> fs]
    /\ UNCHANGED <<manager_vars, fileops_vars, api_vars>>

\* _rollback_operation called on a FileOperation that carries no backup, of any
\* kind and for any of the paths
RollbackGiven(type, raw) ==
    LET operation == FileOperation(type, _normalize_path(raw), None, None)
        r == _rollback_operation(fs, operation)
    IN  /\ call.op = "idle"
        /\ steps < MaxRollbacks
        /\ fs' = r.fs
        /\ steps' = steps + 1
        /\ call' = [op |-> "_rollback_operation", index |-> 0,
                    operation |-> operation, result |-> r.result, before |-> fs]
        /\ UNCHANGED <<manager_vars, fileops_vars, api_vars>>

\* _backup_file called on a path
BackupFile(raw) ==
    LET path == _normalize_path(raw)
        r == _backup_file(fs, tmp_count + 1, path)
    IN  /\ call.op = "idle"
        /\ tmp_count < MaxOps
        /\ fs' = r.fs
        /\ tmp_count' = tmp_count + r.made
        /\ call' = [op |-> "_backup_file", path |-> path, result |-> r.result,
                    value |-> r.value, before |-> fs]
        /\ UNCHANGED <<allowed_paths, transaction_operations, snapshots, steps,
                       fileops_vars, api_vars>>

\* rollback() of the transaction (specification 4.3): the log is gone through
\* from the last entry to the first and each entry is undone by the code's
\* _rollback_operation; an exception ends the pass.  The code has no state tag
\* and no statement that empties transaction_operations: the list stays as it is
RECURSIVE rollback_all(_, _)
rollback_all(f, log) ==
    IF log = <<>> THEN OkFs(f)
    ELSE LET r == _rollback_operation(f, log[Len(log)]) IN
         IF r.result # "ok" THEN r
         ELSE rollback_all(r.fs, SubSeq(log, 1, Len(log) - 1))

Rollback ==
    LET r == rollback_all(fs, transaction_operations) IN
    /\ call.op = "idle"
    /\ steps < MaxRollbacks
    /\ transaction_operations # <<>>
    /\ fs' = r.fs
    /\ steps' = steps + 1
    /\ call' = [op |-> "rollback", result |-> r.result, before |-> fs,
                pre |-> snapshots[1].pre]
    /\ UNCHANGED <<manager_vars, fileops_vars, api_vars>>

NextRollback ==
    \/ \E raw \in OpPaths, content \in Contents : Write(raw, content)
    \/ \E raw \in OpPaths : Delete(raw)
    \/ \E raw_from \in OpPaths, raw_to \in OpPaths : Rename(raw_from, raw_to)
    \/ \E raw \in OpPaths : CreateDir(raw)
    \/ \E i \in 1..MaxOps : RollbackOperation(i)
    \/ \E type \in FileOperationType, raw \in OpPaths : RollbackGiven(type, raw)
    \/ Rollback
    \/ Return

SpecRollback == InitRollback /\ [][NextRollback]_vars

\* the operations, with _backup_file called between them
NextBackup ==
    \/ \E raw \in OpPaths, content \in Contents : Write(raw, content)
    \/ \E raw \in OpPaths : Delete(raw)
    \/ \E raw_from \in OpPaths, raw_to \in OpPaths : Rename(raw_from, raw_to)
    \/ \E raw \in OpPaths : CreateDir(raw)
    \/ \E raw \in OpPaths : BackupFile(raw)
    \/ Return

SpecBackup == InitRollback /\ [][NextBackup]_vars

\* _rollback_operation called on a FileOperation whose backup handle names a
\* temporary copy that is not on disk
RollbackStale(type, raw) ==
    LET path == _normalize_path(raw)
        operation == FileOperation(type, path, None, Some(Append(TmpDir(0), Basename(path))))
        r == _rollback_operation(fs, operation)
    IN  /\ call.op = "idle"
        /\ steps < MaxRollbacks
        /\ fs' = r.fs
        /\ steps' = steps + 1
        /\ call' = [op |-> "_rollback_operation", index |-> 0,
                    operation |-> operation, result |-> r.result, before |-> fs]
        /\ UNCHANGED <<manager_vars, fileops_vars, api_vars>>

\* the operations, with such rollbacks between them
NextStale ==
    \/ \E raw \in OpPaths, content \in Contents : Write(raw, content)
    \/ \E raw \in OpPaths : Delete(raw)
    \/ \E raw_from \in OpPaths, raw_to \in OpPaths : Rename(raw_from, raw_to)
    \/ \E raw \in OpPaths : CreateDir(raw)
    \/ \E type \in FileOperationType, raw \in OpPaths : RollbackStale(type, raw)
    \/ Return

SpecStale == InitRollback /\ [][NextStale]_vars

(***************************************************************************)
(* Containment as the specification means it: p is R or lies below R,      *)
(* component by component.                                                 *)
(***************************************************************************)
Descendant(p, R) == Len(R) <= Len(p) /\ \A i \in 1..Len(R) : p[i] = R[i]
InSomeRoot(p) == \E i \in 1..Len(allowed_paths) : Descendant(p, allowed_paths[i])

\* the normalized (symlinks not followed) and the symlink-resolved form of the
\* candidate of the finished call
NormalizedArg == _normalize_path(call.arg)
ResolvedArg == realpath(fs, <<>>, _normalize_path(call.arg))

\* C1 as stated: _validate_path succeeds if and only if the symlink-resolved form
\* of p is a descendant of (or equal to) some allowed root, and raises
\* WorkspaceSecurityError otherwise
C1_ResolvedAlone ==
    call.op = "_validate_path" =>
        /\ call.result = "ok" <=> InSomeRoot(ResolvedArg)
        /\ call.result # "ok" => call.result = "WorkspaceSecurityError"

\* C1 amended: _validate_path succeeds if and only if both the normalized form and
\* the symlink-resolved form of p are descendants of (or equal to) some allowed
\* root, and raises WorkspaceSecurityError otherwise; in particular a p whose
\* unresolved form lies outside every root but whose resolved form lies inside one
\* is rejected
C1_ValidateIffBoth ==
    call.op = "_validate_path" =>
        /\ call.result = "ok" <=> (InSomeRoot(ResolvedArg) /\ InSomeRoot(NormalizedArg))
        /\ call.result # "ok" => call.result = "WorkspaceSecurityError"
        /\ (~InSomeRoot(NormalizedArg) /\ InSomeRoot(ResolvedArg))
               => call.result = "WorkspaceSecurityError"

\* a candidate outside every root that resolves, through a symlink, into a root
\* has been validated and was rejected
C1_Witness ==
    /\ call.op = "_validate_path"
    /\ ~InSomeRoot(NormalizedArg)
    /\ InSomeRoot(ResolvedArg)
    /\ call.result = "WorkspaceSecurityError"

\* C2: _validate_path returns a path (the normalized one) only when both the
\* normalized and the symlink-resolved form of p are descendants of some allowed
\* root; a path syntactically inside a root that reaches a location outside every
\* root through a symlink is rejected with WorkspaceSecurityError
C2_BothFormsChecked ==
    call.op = "_validate_path" =>
        /\ call.result = "ok" =>
               /\ InSomeRoot(NormalizedArg)
               /\ InSomeRoot(ResolvedArg)
               /\ call.value = NormalizedArg
        /\ (InSomeRoot(NormalizedArg) /\ ~InSomeRoot(ResolvedArg))
               => call.result = "WorkspaceSecurityError"

\* a candidate syntactically inside a root whose symlink leads outside every root
\* has been validated and was rejected
C2_Witness ==
    /\ call.op = "_validate_path"
    /\ InSomeRoot(NormalizedArg)
    /\ NormalizedArg # ResolvedArg
    /\ ~InSomeRoot(ResolvedArg)
    /\ call.result = "WorkspaceSecurityError"

\* p is not R and not below R, yet str(p) starts with str(R)
StringSibling(p, R) == ~Descendant(p, R) /\ startswith(Str(p), Str(R))

\* C3: _is_path_allowed decides containment on whole components: a sibling whose
\* string merely starts with a root's string (and that lies in no root) is never
\* allowed, while each root R itself and every path R/x/... is allowed
C3_ComponentContainment ==
    call.op = "_is_path_allowed" =>
        /\ \A i \in 1..Len(allowed_paths) :
               (StringSibling(NormalizedArg, allowed_paths[i]) /\ ~InSomeRoot(NormalizedArg))
                   => call.result = FALSE
        /\ InSomeRoot(NormalizedArg) => call.result = TRUE
        /\ call.result = TRUE => InSomeRoot(NormalizedArg)

\* the sibling /ws-evil/... of a root /ws was asked about and was not allowed, and
\* so was a path strictly below a root, which was allowed
C3_Witness ==
    /\ call.op = "_is_path_allowed"
    /\ \E i \in 1..Len(allowed_paths) : StringSibling(NormalizedArg, allowed_paths[i])
    /\ ~InSomeRoot(NormalizedArg)
    /\ call.result = FALSE

(***************************************************************************)
(* FileOperations: the claims.                                             *)
(***************************************************************************)
\* p is located within some configured allowed directory, by components, both
\* sides symlink-resolved
FoWithin(f, p) ==
    \E i \in 1..Len(fo_allowed_paths) : Descendant(p, resolve(f, fo_allowed_paths[i]))

\* C4: FileOperations.validate_path raises ValueError for every p whose resolved
\* form is not within (equal to or a descendant of) any allowed directory, and
\* returns the resolved path only for paths within one; a sibling directory whose
\* name extends an allowed directory's name is rejected
C4_ValidateWithinAllowed ==
    call.op = "validate_path" =>
        LET resolved == resolve(fs, expanduser(call.arg)) IN
        /\ ~FoWithin(fs, resolved) => call.result = "ValueError"
        /\ call.result = "ok" => (FoWithin(fs, resolved) /\ call.value = resolved)

\* C5: no byte of a file outside the allowed directories is ever read: a read of
\* a path outside every allowed directory fails with the security error (ValueError)
\* and opens nothing
C5_NoReadOutside ==
    call.op = "safe_read_file" =>
        LET resolved == resolve(fs, expanduser(call.arg)) IN
        /\ \A q \in call.opened : FoWithin(fs, q)
        /\ ~FoWithin(fs, resolved) => (call.result = "ValueError" /\ call.opened = {})

\* the answers that confirm: y, ye, yes in any mix of cases
YesVariants ==
    {"y", "Y", "ye", "yE", "Ye", "YE",
     "yes", "yeS", "yEs", "yES", "Yes", "YeS", "YEs", "YES"}

\* the finished safe_write_file call had to ask, and the answer was a refusal
WriteRefused ==
    /\ call.op = "safe_write_file"
    /\ fo_validate_path(call.before, fo_allowed_paths, call.arg).result = "ok"
    /\ IF call.confirm.given THEN call.confirm.value
       ELSE (ConfirmKey \notin DOMAIN security_config \/ security_config[ConfirmKey])
    /\ call.answer \notin YesVariants

\* C6: when confirmation is required and the answer is a refusal, safe_write_file
\* fails with PermissionError and the filesystem is unchanged (neither the target
\* nor a missing parent directory is created or modified) and nothing is recorded
C6_RefusalChangesNothing ==
    WriteRefused =>
        /\ call.result = "PermissionError"
        /\ fs = call.before
        /\ transaction_operations = <<>>

\* a write to a new file below a missing directory was refused
C6_Witness ==
    /\ WriteRefused
    /\ call.result = "PermissionError"
    /\ LET resolved == resolve(call.before, expanduser(call.arg)) IN
       /\ resolved \notin DOMAIN fs
       /\ Parent(resolved) \notin DOMAIN fs

\* q holds a backup copy, made by the backup routine, of the node
IsBackupOf(f, q, node) ==
    /\ q \in DOMAIN f
    /\ Len(q) = 3
    /\ q[1] = "tmp"
    /\ startswith(q[2], "ai_agent_backup_")
    /\ f[q] = node

\* C7: whenever a write overwrites a file that already exists, a backup copy of
\* the old content has been created by the backup routine before the first byte
\* is overwritten
C7_BackupBeforeOverwrite ==
    (/\ call.op = "safe_write_file"
     /\ call.result \in {"ok", "OSError"}
     /\ is_file(call.before, resolve(call.before, expanduser(call.arg))))
    => \E q \in DOMAIN fs :
           IsBackupOf(fs, q, call.before[resolve(call.before, expanduser(call.arg))])

(***************************************************************************)
(* Backup and rollback: the claims.                                        *)
(***************************************************************************)
\* the finished call rolled back a recorded operation on the filesystem exactly
\* as that operation had left it
DirectRollback ==
    /\ call.op = "_rollback_operation"
    /\ call.index \in 1..Len(snapshots)
    /\ call.before = snapshots[call.index].post

\* the filesystem before the operation that was rolled back
BeforeOperation == snapshots[call.index].pre

\* C8: rolling back a WRITE operation with no backup handle whose path is an
\* existing file completes without error, and the file no longer exists
C8_FreshWriteRollbackDeletes ==
    (/\ call.op = "_rollback_operation"
     /\ call.operation.operation_type = "write"
     /\ ~call.operation.backup_path.some
     /\ is_file(call.before, call.operation.path))
    => (call.result = "ok" /\ ~exists(fs, call.operation.path))

C10_RenameRollback ==
    (/\ DirectRollback
     /\ call.operation.operation_type = "rename")
    => /\ call.result = "ok"
       /\ View(fs, call.operation.path) = View(BeforeOperation, call.operation.path)
       /\ View(fs, call.operation.new_path.path)
              = View(BeforeOperation, call.operation.new_path.path)

(***************************************************************************)
(* Rollback of single operations: further claims.                          *)
(***************************************************************************)
\* C11: rolling back a CreateDir removes the created directory only if it is
\* empty at rollback time; a directory that has gained content is left in place
\* with all of its content
C11_CreateDirRollbackOnlyIfEmpty ==
    (/\ call.op = "_rollback_operation"
     /\ call.operation.operation_type = "create_dir"
     /\ ~call.operation.backup_path.some
     /\ is_dir(call.before, call.operation.path))
    => IF Children(call.before, realpath(call.before, <<>>, call.operation.path)) = {}
       THEN ~exists(fs, call.operation.path)
       ELSE fs = call.before

\* C13: rolling back a Read or ListDir operation, which carries no backup handle,
\* completes normally without raising and leaves the filesystem unchanged
C13_ReadListDirRollbackNoOp ==
    (/\ call.op = "_rollback_operation"
     /\ call.operation.operation_type \in {"read", "list_dir"}
     /\ ~call.operation.backup_path.some)
    => (call.result = "ok" /\ fs = call.before)

C14_RollbackRestoresPreTransaction ==
    call.op = "rollback"
    => /\ call.result = "ok"
       /\ View(fs, <<"ws">>) = View(call.pre, <<"ws">>)

C16_FailedWriteUndone ==
    (/\ call.op = "safe_write_file"
     /\ call.result \notin {"ok", "ValueError", "PermissionError"})
    => fs = call.before

(***************************************************************************)
(* Backups.                                                                *)
(***************************************************************************)
\* f as far as the paths of g go
Within(f, g) == [q \in DOMAIN f \cap DOMAIN g |-> f[q]]

BackedUp(operation) ==
    IF operation.operation_type = "rename" THEN operation.new_path.path
    ELSE operation.path

\* the recorded operations that carry a backup
WithBackup == {i \in 1..Len(transaction_operations) :
                  transaction_operations[i].backup_path.some}

\* C18: backups are never shared: any two successful _backup_file calls, also
\* for the same path or for paths of the same name, return distinct handles in
\* distinct storage, and no later backup or change of the workspace changes the
\* content of an earlier backup: each still holds what was at its path when it
\* was taken
C18_BackupsNeverShared ==
    /\ \A i \in WithBackup, j \in WithBackup :
          i # j => LET bi == transaction_operations[i].backup_path.path
                       bj == transaction_operations[j].backup_path.path
                   IN  bi # bj /\ Parent(bi) # Parent(bj)
    /\ \A i \in WithBackup :
          View(fs, transaction_operations[i].backup_path.path)
              = View(snapshots[i].pre, BackedUp(transaction_operations[i]))

\* two backups of the same path were taken, and the workspace was changed by a
\* rollback after that
C18_Witness ==
    /\ WithBackup = {1, 2}
    /\ transaction_operations[1].path = transaction_operations[2].path
    /\ call.op = "_rollback_operation"
    /\ call.result = "ok"
    /\ fs # call.before

\* C19: restoring from a backup whose copy exists replaces whatever is at the
\* target path, be it a file, a directory tree or nothing, and be the backup a
\* file or a tree: after _rollback_operation what is at the target is the
\* backup's content, and nothing of what was there before remains
C19_RestoreReplacesTarget ==
    (/\ call.op = "_rollback_operation"
     /\ call.operation.backup_path.some
     /\ exists(call.before, call.operation.backup_path.path)
     /\ \/ Entry(call.before, call.operation.path) \notin DOMAIN call.before
        \/ call.before[Entry(call.before, call.operation.path)].kind # "link")
    => /\ call.result = "ok"
       /\ View(fs, call.operation.path) = View(fs, call.operation.backup_path.path)
       /\ View(fs, call.operation.path) # {}

\* C20: a backup's temporary storage is released once it is no longer needed:
\* after an operation has been restored from its backup handle, the temporary
\* copy no longer exists
C20_BackupReleasedAfterRestore ==
    (/\ call.op = "_rollback_operation"
     /\ call.operation.backup_path.some
     /\ exists(call.before, call.operation.backup_path.path)
     /\ call.result = "ok")
    => ~exists(fs, call.operation.backup_path.path)

(***************************************************************************)
(* The allow-list and the relative path.                                   *)
(***************************************************************************)
\* the paths the constructor was given, normalized, the root first
GivenRoots ==
    <<_normalize_path(call.root_path)>>
    \o [i \in 1..Len(call.allowed_paths) |-> _normalize_path(call.allowed_paths[i])]

\* where p first occurs among them
FirstGiven(p) ==
    CHOOSE i \in 1..Len(GivenRoots) :
        GivenRoots[i] = p /\ \A j \in 1..(i - 1) : GivenRoots[j] # p

\* C21: after construction with any root_path and any extra allowed paths,
\* duplicates and the root included, allowed_paths is non-empty, starts with the
\* normalized root_path, holds exactly the given paths in the order of their
\* first occurrence, and holds no normalized path twice
C21_AllowedPathsOrderedSet ==
    call.op = "__init__"
    => /\ Len(allowed_paths) >= 1
       /\ allowed_paths[1] = _normalize_path(call.root_path)
       /\ {allowed_paths[i] : i \in 1..Len(allowed_paths)}
              = {GivenRoots[i] : i \in 1..Len(GivenRoots)}
       /\ \A i \in 1..Len(allowed_paths), j \in 1..Len(allowed_paths) :
              i < j => /\ allowed_paths[i] # allowed_paths[j]
                       /\ FirstGiven(allowed_paths[i]) < FirstGiven(allowed_paths[j])

\* the constructor was given a path twice, and one equal to the root
C21_Witness ==
    /\ call.op = "__init__"
    /\ Len(allowed_paths) >= 2
    /\ \E i \in 2..Len(GivenRoots) : GivenRoots[i] = GivenRoots[1]
    /\ \E i \in 2..Len(GivenRoots), j \in 2..Len(GivenRoots) :
           i # j /\ GivenRoots[i] = GivenRoots[j] /\ GivenRoots[i] # GivenRoots[1]

\* the roots that hold the normalized argument
RootsHolding == {i \in 1..Len(allowed_paths) : Descendant(NormalizedArg, allowed_paths[i])}

\* C22: _get_relative_path(p) returns p relative to an allowed root that holds
\* the normalized p, the first such root in the order of the allow-list, so that
\* the root joined with the result is the normalized p; it raises
\* WorkspaceSecurityError exactly when no allowed root holds it
C22_RelativeToFirstRoot ==
    call.op = "_get_relative_path"
    => IF RootsHolding = {}
       THEN call.result = "WorkspaceSecurityError"
       ELSE /\ call.result = "ok"
            /\ \E i \in RootsHolding :
                  /\ \A j \in RootsHolding : i <= j
                  /\ allowed_paths[i] \o call.value = NormalizedArg

\* two roots hold the path, and the nearer one is not the first
C22_Witness ==
    /\ call.op = "_get_relative_path"
    /\ call.result = "ok"
    /\ \E i \in RootsHolding, j \in RootsHolding :
           i < j /\ Len(allowed_paths[i]) # Len(allowed_paths[j])

\* C30: after construction every allowed root exists as a directory, and
\* _validate_path accepts every allowed root itself and every path directly
\* under it that is not a symlink, also when a root or one of its ancestors is a
\* symbolic link
C30_RootsUsable ==
    /\ \A i \in 1..Len(allowed_paths) : is_dir(fs, allowed_paths[i])
    /\ (/\ call.op = "_validate_path"
        /\ \E i \in 1..Len(allowed_paths) :
              \/ NormalizedArg = allowed_paths[i]
              \/ /\ Parent(NormalizedArg) = allowed_paths[i]
                 /\ Len(NormalizedArg) = Len(allowed_paths[i]) + 1
                 /\ ~(NormalizedArg \in DOMAIN fs /\ fs[NormalizedArg].kind = "link"))
       => call.result = "ok"

(***************************************************************************)
(* Reading, and the order of the steps of a write.                         *)
(***************************************************************************)
\* C23: safe_read_file on a path inside an allowed directory that does not
\* exist fails with FileNotFoundError; on a path outside every allowed directory
\* it fails with the security error (ValueError) whether or not the file exists
C23_ReadNotFoundAndSecurity ==
    call.op = "safe_read_file" =>
        LET resolved == resolve(fs, expanduser(call.arg)) IN
        /\ (FoWithin(fs, resolved) /\ resolved \notin DOMAIN fs)
               => call.result = "FileNotFoundError"
        /\ ~FoWithin(fs, resolved) => call.result = "ValueError"

\* the finished safe_write_file call got past validation
WriteValidated ==
    fo_validate_path(call.before, fo_allowed_paths, call.arg).result = "ok"

\* C25: in safe_write_file the confirm argument overrides the configured policy
\* in both directions, and with confirm omitted the configuration decides,
\* confirmation being required when it says nothing; the steps occur in the
\* order validate, ask, mutate: a path that fails validation is neither asked
\* about nor written, and nothing is written before a refusal
C25_ConfirmOverrideAndOrder ==
    call.op = "safe_write_file" =>
        /\ ~WriteValidated
              => (call.result = "ValueError" /\ ~call.prompted /\ fs = call.before)
        /\ (WriteValidated /\ call.confirm.given) => (call.prompted <=> call.confirm.value)
        /\ (WriteValidated /\ ~call.confirm.given /\ ConfirmKey \in DOMAIN security_config)
              => (call.prompted <=> security_config[ConfirmKey])
        /\ (WriteValidated /\ ~call.confirm.given /\ ConfirmKey \notin DOMAIN security_config)
              => call.prompted
        /\ (call.prompted /\ call.answer \notin YesVariants)
              => (call.result = "PermissionError" /\ fs = call.before)
        /\ (WriteValidated /\ ~call.prompted) => call.result # "PermissionError"

\* the configuration requires confirmation, confirm=False was given, and the
\* file was written without a question
C25_Witness ==
    /\ call.op = "safe_write_file"
    /\ ConfirmKey \in DOMAIN security_config
    /\ security_config[ConfirmKey]
    /\ call.confirm = Confirm(FALSE)
    /\ ~call.prompted
    /\ call.result = "ok"
    /\ fs # call.before

(***************************************************************************)
(* A backup handle whose copy is gone.                                     *)
(***************************************************************************)
\* C29: when an operation carries a backup handle whose temporary copy is no
\* longer on disk, _rollback_operation returns normally, without raising and
\* without touching the target path: the operation is left not undone
C29_MissingBackupCopySkipped ==
    (/\ call.op = "_rollback_operation"
     /\ call.operation.backup_path.some
     /\ ~exists(call.before, call.operation.backup_path.path))
    => (call.result = "ok" /\ fs = call.before)

\* such a rollback was called for a path where a file or a directory is
C29_Witness ==
    /\ call.op = "_rollback_operation"
    /\ call.operation.backup_path.some
    /\ ~exists(call.before, call.operation.backup_path.path)
    /\ exists(call.before, call.operation.path)
    /\ call.operation.operation_type \in {"write", "delete"}

(***************************************************************************)
(* ConfigManager (src/config_manager.py).  The configuration is a dict     *)
(* with the keys "providers" and "default_provider", either of which may   *)
(* be absent; "providers" is itself a dict from provider names to settings *)
(* dicts.  A dict whose key order the code reads (the first provider) is a *)
(* sequence of entries with distinct keys, in insertion order; a settings  *)
(* dict is a function from field names to values.                          *)
(***************************************************************************)
\* most configuration calls in one run
MaxConfigCalls == 2

REQUIRED_PROVIDER_FIELDS == <<"api_url", "model">>

\* key in d
Has(d, k) == \E i \in 1..Len(d) : d[i].key = k

\* d[key], for a key in d
At(d, k) == d[CHOOSE i \in 1..Len(d) : d[i].key = k].value

\* d[key] = value: an existing key keeps its place, a new key goes last
Put(d, k, v) ==
    IF Has(d, k)
    THEN [i \in 1..Len(d) |-> IF d[i].key = k THEN [key |-> k, value |-> v] ELSE d[i]]
    ELSE Append(d, [key |-> k, value |-> v])

\* list(d.keys())
Keys(d) == [i \in 1..Len(d) |-> d[i].key]

\* config[key] = value on the top-level dict
SetKey(c, k, v) == [x \in DOMAIN c \cup {k} |-> IF x = k THEN v ELSE c[x]]

\* the provider names of the model: two the client factory knows and one it
\* does not
ProviderNames == {"claude", "local", "custom"}

\* settings dicts: complete, without an API key, without a model, empty
FullSettings == [api_key |-> "k", api_url |-> "u", model |-> "m"]
KeylessSettings == [api_url |-> "u", model |-> "m"]
ModellessSettings == [api_key |-> "k", api_url |-> "u"]
SettingsChoices == {FullSettings, KeylessSettings, ModellessSettings, <<>>}

Item(k, v) == [key |-> k, value |-> v]

\* what the configuration file may hold: no file, a file that is not JSON, or
\* a JSON object
ConfigFiles ==
    { [kind |-> "missing"], [kind |-> "garbage"] } \cup
    { [kind |-> "json", data |-> d] : d \in {
        [default_provider |-> "claude"],
        [providers |-> <<>>, default_provider |-> "claude"],
        [providers |-> <<Item("claude", FullSettings)>>],
        [providers |-> <<Item("claude", ModellessSettings)>>],
        [providers |-> <<Item("claude", FullSettings), Item("local", KeylessSettings)>>,
         default_provider |-> "local"],
        [providers |-> <<Item("local", KeylessSettings), Item("claude", KeylessSettings)>>,
         default_provider |-> "gone"],
        [providers |-> <<Item("claude", FullSettings), Item("custom", FullSettings)>>,
         default_provider |-> "claude"] } }

\* _validate_config(): the outcome and the dict the checks leave behind (a
\* missing or unknown default provider is replaced by the first provider)
_validate_config(c) ==
    IF "providers" \notin DOMAIN c THEN [result |-> "ValueError", config |-> c]
    ELSE IF c.providers = <<>> THEN [result |-> "ValueError", config |-> c]
    ELSE LET d == IF "default_provider" \notin DOMAIN c
                  THEN SetKey(c, "default_provider", c.providers[1].key)
                  ELSE IF ~Has(c.providers, c.default_provider)
                       THEN SetKey(c, "default_provider", c.providers[1].key)
                       ELSE c
         IN IF \E i \in 1..Len(d.providers), j \in 1..Len(REQUIRED_PROVIDER_FIELDS) :
                   REQUIRED_PROVIDER_FIELDS[j] \notin DOMAIN d.providers[i].value
            THEN [result |-> "ValueError", config |-> d]
            ELSE [result |-> "ok", config |-> d]

\* load_config(): read the file, parse it, validate it
load_config(file) ==
    IF file.kind = "missing" THEN [result |-> "FileNotFoundError", config |-> <<>>]
    ELSE IF file.kind = "garbage" THEN [result |-> "JSONDecodeError", config |-> <<>>]
    ELSE _validate_config(file.data)

\* get_provider_config(provider)
get_provider_config(c, name) ==
    IF ~Has(c.providers, name) THEN [result |-> "ValueError", value |-> <<>>]
    ELSE [result |-> "ok", value |-> At(c.providers, name)]

\* get_default_provider()
get_default_provider(c) == c.default_provider

\* get_available_providers()
get_available_providers(c) ==
    IF "providers" \in DOMAIN c THEN Keys(c.providers) ELSE <<>>

\* update_provider(provider, settings): the settings are stored as given
update_provider(c, name, settings) ==
    LET d == IF "providers" \notin DOMAIN c THEN SetKey(c, "providers", <<>>) ELSE c
    IN SetKey(d, "providers", Put(d.providers, name, settings))

\* set_default_provider(provider)
set_default_provider(c, name) ==
    IF ~Has(c.providers, name) THEN [result |-> "ValueError", config |-> c]
    ELSE [result |-> "ok", config |-> SetKey(c, "default_provider", name)]

\* the state after ConfigManager(config_path) returned: the file was loaded
InitConfig ==
    \E file \in ConfigFiles :
        /\ load_config(file).result = "ok"
        /\ cm_config = load_config(file).config
        /\ provider = ""
        /\ client = <<>>
        /\ audit_log = <<>>
        /\ history_log = <<>>
        /\ fs = <<>>
        /\ allowed_paths = <<>>
        /\ fo_allowed_paths = <<>>
        /\ security_config = <<>>
        /\ transaction_operations = <<>>
        /\ tmp_count = 0
        /\ snapshots = <<>>
        /\ steps = 0
        /\ call = [op |-> "load_config", file |-> file]

UpdateProvider(name, settings) ==
    /\ call.op = "idle"
    /\ steps < MaxConfigCalls
    /\ cm_config' = update_provider(cm_config, name, settings)
    /\ steps' = steps + 1
    /\ call' = [op |-> "update_provider", provider |-> name, settings |-> settings,
                result |-> "ok", before |-> cm_config]
    /\ UNCHANGED <<provider, client, audit_log, history_log, files_vars>>

SetDefaultProvider(name) ==
    /\ call.op = "idle"
    /\ steps < MaxConfigCalls
    /\ cm_config' = set_default_provider(cm_config, name).config
    /\ steps' = steps + 1
    /\ call' = [op |-> "set_default_provider", provider |-> name,
                result |-> set_default_provider(cm_config, name).result,
                before |-> cm_config]
    /\ UNCHANGED <<provider, client, audit_log, history_log, files_vars>>

NextConfig ==
    \/ \E name \in ProviderNames, settings \in SettingsChoices :
            UpdateProvider(name, settings)
    \/ \E name \in ProviderNames : SetDefaultProvider(name)
    \/ Return

SpecConfig == InitConfig /\ [][NextConfig]_vars

\* what _validate_config checks, as a condition on a configuration
ValidConfig(c) ==
    /\ "providers" \in DOMAIN c
    /\ c.providers # <<>>
    /\ "default_provider" \in DOMAIN c
    /\ Has(c.providers, c.default_provider)
    /\ \A i \in 1..Len(c.providers) :
           {"api_url", "model"} \subseteq DOMAIN c.providers[i].value

\* C28: once the configuration was loaded, it satisfies what _validate_config
\* checks after every update_provider and set_default_provider call, raising
\* or not: providers non-empty, default_provider an existing provider, every
\* provider entry with api_url and model
C28_ConfigStaysValid == ValidConfig(cm_config)

(***************************************************************************)
(* The API clients (src/api_client.py).  A client is its class, the        *)
(* settings it was made with and its conversation_history; the network is  *)
(* an input of each send: what the request and the parsing of its answer   *)
(* did.                                                                    *)
(***************************************************************************)
\* most API calls in one run
MaxApiCalls == 2

\* Message(role, content)
Message(role, content) == [role |-> role, content |-> content]

\* BaseAPIClient.__init__ by way of a subclass
NewClient(class, settings) ==
    [class |-> class, api_url |-> settings.api_url, model |-> settings.model,
     conversation_history |-> <<>>]

\* APIClientFactory.create_client(provider, config): config["api_key"] and
\* the like raise KeyError for an absent key
create_client(name, settings) ==
    LET KeyError == [result |-> "KeyError", client |-> <<>>]
        class == CASE name = "claude" -> "ClaudeAPIClient"
                   [] name = "openai" -> "OpenAIAPIClient"
                   [] name = "gemini" -> "GeminiAPIClient"
                   [] OTHER -> "LocalAPIClient"
    IN IF name \in {"claude", "openai", "gemini"}
       THEN IF {"api_key", "api_url", "model"} \subseteq DOMAIN settings
            THEN [result |-> "ok", client |-> NewClient(class, settings)]
            ELSE KeyError
       ELSE IF name = "local"
       THEN IF {"api_url", "model"} \subseteq DOMAIN settings
            THEN [result |-> "ok", client |-> NewClient(class, settings)]
            ELSE KeyError
       ELSE [result |-> "ValueError", client |-> <<>>]

\* add_message(role, content)
add_message(cl, role, content) ==
    [cl EXCEPT !.conversation_history = Append(@, Message(role, content))]

\* BaseAPIClient.clear_conversation()
BaseAPIClient_clear_conversation(cl) == [cl EXCEPT !.conversation_history = <<>>]

\* what one request can do: answer with a parsable 200, time out, fail in
\* transport, answer with another status, answer with a body that is not
\* JSON (a ValueError), answer with JSON that lacks the expected field
Outcomes == {"ok", "Timeout", "RequestException", "status", "ValueError", "KeyError"}

\* the exception send_message ends with for an outcome: Timeout,
\* RequestException and a non-200 status become a plain Exception with its
\* own message, any other exception is raised again as it is
Raised(outcome) ==
    CASE outcome = "Timeout" -> "Exception: timed out"
      [] outcome = "RequestException" -> "Exception: error communicating"
      [] outcome = "status" -> "Exception: status code"
      [] OTHER -> outcome

\* the text the API answers with
Response == "r"

\* a variant that records the user message only once the request succeeded
mut_BaseAPIClient_send_message_user_late(cl, content, outcome) ==
    IF outcome = "ok"
    THEN [result |-> "ok", value |-> Response,
          client |-> add_message(add_message(cl, "user", content), "assistant", Response)]
    ELSE [result |-> Raised(outcome), value |-> "", client |-> cl]

\* BaseAPIClient.send_message(content): the user message is appended first,
\* the assistant message after a parsed answer
BaseAPIClient_send_message(cl, content, outcome) ==
    LET c1 == add_message(cl, "user", content)
    IN IF outcome = "ok"
       THEN [result |-> "ok", value |-> Response,
             client |-> add_message(c1, "assistant", Response)]
       ELSE [result |-> Raised(outcome), value |-> "", client |-> c1]

(***************************************************************************)
(* APIInterface (src/api_interface.py).  Each write of a log line either   *)
(* goes through or fails (the file cannot be opened or written); which     *)
(* writes of a call fail is an input of the call.                          *)
(***************************************************************************)
\* the log writes of one call, numbered in program order, that fail
FailingWrites == { {}, {1}, {2}, {3}, {4}, {5}, {1, 3, 5}, {2, 4}, {1, 2, 3, 4, 5} }

\* _create_client(): the provider's settings, then the factory
_create_client(c, name) ==
    IF get_provider_config(c, name).result # "ok"
    THEN [result |-> get_provider_config(c, name).result, client |-> <<>>]
    ELSE create_client(name, get_provider_config(c, name).value)

\* a variant without the try/except around the write
mut_log_audit_unguarded(log, name, event_type, data, fails) ==
    IF fails THEN [result |-> "OSError", log |-> log]
    ELSE [result |-> "ok",
          log |-> Append(log, [event_type |-> event_type, provider |-> name, data |-> data])]

\* _log_audit(event_type, data): an exception of the write is logged and
\* dropped
_log_audit(log, name, event_type, data, fails) ==
    IF fails THEN [result |-> "ok", log |-> log]
    ELSE [result |-> "ok",
          log |-> Append(log, [event_type |-> event_type, provider |-> name, data |-> data])]

\* _log_history(role, content), likewise
_log_history(log, name, role, content, fails) ==
    IF fails THEN [result |-> "ok", log |-> log]
    ELSE [result |-> "ok",
          log |-> Append(log, [provider |-> name, role |-> role, content |-> content])]

\* APIInterface.send_message(content): the try block ends at its first
\* exception; the handler logs the error and raises the exception again (an
\* exception of the handler itself would take its place)
send_message(name, cl, alog, hlog, content, outcome, failing) ==
    LET a1 == _log_audit(alog, name, "api_request", content, 1 \in failing)
        h1 == _log_history(hlog, name, "user", content, 2 \in failing)
        r  == BaseAPIClient_send_message(cl, content, outcome)
        a2 == _log_audit(a1.log, name, "api_response", r.value, 3 \in failing)
        h2 == _log_history(h1.log, name, "assistant", r.value, 4 \in failing)
        Out(res, val, c, a, h) ==
            [result |-> res, value |-> val, client |-> c, audit_log |-> a, history_log |-> h]
        try == IF a1.result # "ok" THEN Out(a1.result, "", cl, a1.log, hlog)
               ELSE IF h1.result # "ok" THEN Out(h1.result, "", cl, a1.log, h1.log)
               ELSE IF r.result # "ok" THEN Out(r.result, "", r.client, a1.log, h1.log)
               ELSE IF a2.result # "ok" THEN Out(a2.result, "", r.client, a2.log, h1.log)
               ELSE IF h2.result # "ok" THEN Out(h2.result, "", r.client, a2.log, h2.log)
               ELSE Out("ok", r.value, r.client, a2.log, h2.log)
        a3 == _log_audit(try.audit_log, name, "api_error", try.result, 5 \in failing)
    IN IF try.result = "ok" THEN try
       ELSE IF a3.result # "ok"
            THEN Out(a3.result, "", try.client, a3.log, try.history_log)
            ELSE Out(try.result, "", try.client, a3.log, try.history_log)

\* APIInterface.clear_conversation()
clear_conversation(name, cl, alog, failing) ==
    LET a == _log_audit(alog, name, "conversation_cleared", "", 1 \in failing)
    IN [result |-> a.result, client |-> BaseAPIClient_clear_conversation(cl),
        audit_log |-> a.log]

\* APIInterface.switch_provider(provider): the membership test, then
\* self.provider is assigned, then the client is made, then the log line
switch_provider(c, current, cl, alog, name, failing) ==
    IF \A i \in 1..Len(get_available_providers(c)) : get_available_providers(c)[i] # name
    THEN [result |-> "ValueError", provider |-> current, client |-> cl, audit_log |-> alog]
    ELSE LET made == _create_client(c, name)
             a == _log_audit(alog, name, "provider_switched", name, 1 \in failing)
         IN IF made.result # "ok"
            THEN [result |-> made.result, provider |-> name, client |-> cl,
                  audit_log |-> alog]
            ELSE [result |-> a.result, provider |-> name, client |-> made.client,
                  audit_log |-> a.log]

\* the state after APIInterface(config_path, provider) returned: the file
\* was loaded and the client of the provider (the default one when none is
\* given) was made
InitApi ==
    \E file \in ConfigFiles, given \in ProviderNames \cup {""} :
        LET loaded == load_config(file)
            name == IF given # "" THEN given ELSE get_default_provider(loaded.config)
        IN /\ loaded.result = "ok"
           /\ _create_client(loaded.config, name).result = "ok"
           /\ cm_config = loaded.config
           /\ provider = name
           /\ client = _create_client(loaded.config, name).client
           /\ audit_log = <<>>
           /\ history_log = <<>>
           /\ fs = <<>>
           /\ allowed_paths = <<>>
           /\ fo_allowed_paths = <<>>
           /\ security_config = <<>>
           /\ transaction_operations = <<>>
           /\ tmp_count = 0
           /\ snapshots = <<>>
           /\ steps = 0
           /\ call = [op |-> "__init__", file |-> file, provider |-> given]

SendMessage(content, outcome, failing) ==
    LET r == send_message(provider, client, audit_log, history_log, content, outcome, failing)
    IN /\ call.op = "idle"
       /\ steps < MaxApiCalls
       /\ client' = r.client
       /\ audit_log' = r.audit_log
       /\ history_log' = r.history_log
       /\ steps' = steps + 1
       /\ call' = [op |-> "send_message", content |-> content, outcome |-> outcome,
                   failing |-> failing, result |-> r.result, value |-> r.value,
                   before_provider |-> provider, before_client |-> client,
                   before_audit_log |-> audit_log, before_history_log |-> history_log]
       /\ UNCHANGED <<cm_config, provider, files_vars>>

ClearConversation(failing) ==
    LET r == clear_conversation(provider, client, audit_log, failing)
    IN /\ call.op = "idle"
       /\ steps < MaxApiCalls
       /\ client' = r.client
       /\ audit_log' = r.audit_log
       /\ steps' = steps + 1
       /\ call' = [op |-> "clear_conversation", failing |-> failing, result |-> r.result,
                   before_provider |-> provider, before_client |-> client]
       /\ UNCHANGED <<cm_config, provider, history_log, files_vars>>

SwitchProvider(name, failing) ==
    LET r == switch_provider(cm_config, provider, client, audit_log, name, failing)
    IN /\ call.op = "idle"
       /\ steps < MaxApiCalls
       /\ provider' = r.provider
       /\ client' = r.client
       /\ audit_log' = r.audit_log
       /\ steps' = steps + 1
       /\ call' = [op |-> "switch_provider", provider |-> name, failing |-> failing,
                   result |-> r.result,
                   before_provider |-> provider, before_client |-> client]
       /\ UNCHANGED <<cm_config, history_log, files_vars>>

NextApi ==
    \/ \E outcome \in Outcomes, failing \in FailingWrites :
            SendMessage("q", outcome, failing)
    \/ \E failing \in {{}, {1}} : ClearConversation(failing)
    \/ \E name \in ProviderNames, failing \in {{}, {1}} : SwitchProvider(name, failing)
    \/ Return

SpecApi == InitApi /\ [][NextApi]_vars

(***************************************************************************)
(* Logging failures.                                                       *)
(***************************************************************************)
\* C24: whichever log writes fail, APIInterface.send_message returns the API
\* response when the request succeeds, and ends with the request's own
\* exception when the request fails, also when the write of the error line
\* fails
C24_LoggingNeverAltersOutcome ==
    call.op = "send_message" =>
        IF call.outcome = "ok"
        THEN call.result = "ok" /\ call.value = Response
        ELSE call.result = Raised(call.outcome)

\* a request failed and so did the write of its error line, after the
\* request line had been written
C24_Witness ==
    /\ call.op = "send_message"
    /\ call.outcome = "Timeout"
    /\ call.failing = {5}
    /\ Len(audit_log) = Len(call.before_audit_log) + 1
    /\ call.result = Raised("Timeout")

(***************************************************************************)
(* The provider and its client.                                            *)
(***************************************************************************)
\* the client is one the factory makes for the provider
ClientOf(c, name, cl) ==
    /\ _create_client(c, name).result = "ok"
    /\ cl.class = _create_client(c, name).client.class

\* C26: the client is always a client made for the current provider, and a
\* switch_provider call that raises leaves provider and client as they were
C26_ProviderClientConsistent ==
    /\ ClientOf(cm_config, provider, client)
    /\ (call.op = "switch_provider" /\ call.result # "ok")
         => (provider = call.before_provider /\ client = call.before_client)

(***************************************************************************)
(* The conversation history of a client.                                   *)
(***************************************************************************)
\* C27: a successful send grows conversation_history by the user message and
\* then the assistant message, a failed send (timeout, transport error,
\* non-200 status, unparsable answer) by the user message alone
C27_HistoryGrowth ==
    call.op = "send_message" =>
        LET before == call.before_client.conversation_history
            user == Message("user", call.content)
        IN IF call.outcome = "ok"
           THEN client.conversation_history =
                    before \o <<user, Message("assistant", Response)>>
           ELSE client.conversation_history = before \o <<user>>

\* a send after a failed send: two user messages in a row
C27_Witness ==
    /\ call.op = "send_message"
    /\ \E i \in 1..(Len(client.conversation_history) - 1) :
          /\ client.conversation_history[i].role = "user"
          /\ client.conversation_history[i + 1].role = "user"

====
